---- MODULE Spec2Model ----
(***************************************************************************)
(* A model of the listpack engine of src/src/raw.rs: the binary layout,    *)
(* the tag-dispatch encoder and decoder, the backlen codec, the traversal  *)
(* functions and the mutation engine (new, append, insert, replace,        *)
(* delete, length).                                                        *)
(*                                                                         *)
(* Memory is a function from byte offsets (0-based, as in the source) to   *)
(* bytes.  A 64-bit integer is its machine representation: a tuple of 8    *)
(* bytes, least significant first (two's complement), so that the full     *)
(* i64 range is covered without leaving TLC's integers.  The build is the  *)
(* release build on a little-endian target: to_le()/from_le() are the      *)
(* identity there.                                                         *)
(***************************************************************************)
EXTENDS Integers, Sequences, FiniteSets, TLC

VARIABLES
    lp,         \* the bytes of the current allocation: [0..allocated-1 -> 0..255]
    allocated,  \* the size last passed to alloc/realloc
    junk,       \* what a read of memory the program never wrote yields in this state
    shadow,     \* ghost: the sequence of values the calls made so far should have left
    ret,        \* the last call and what it returned
    calls,      \* the number of calls made so far
    pc,         \* codec drill: position of the drill
    input       \* codec drill: the value under test

vars == <<lp, allocated, junk, shadow, ret, calls, pc, input>>

(***************************************************************************)
(* Bounds of the model.                                                    *)
(***************************************************************************)
\* Entries the calls of Spec may add, the largest allocation Spec follows,
\* the calls in a behaviour of Spec, the appends in one of SpecAppend.
MaxEntries == 2
MaxBytes == 15
MaxCalls == 4
MaxAppends == 3

(***************************************************************************)
(* Constants of raw.rs.                                                    *)
(***************************************************************************)
HDR_SIZE == 6
HDR_USIZE == 6
HDR_NUMELE_UNKNOWN == 65535
EOF == 255
ENCODING_7BIT_UINT == 0
ENCODING_7BIT_UINT_MASK == 128
ENCODING_6BIT_STR == 128
ENCODING_6BIT_STR_MASK == 192
ENCODING_13BIT_INT == 192
ENCODING_13BIT_INT_MASK == 224
ENCODING_12BIT_STR == 224
ENCODING_12BIT_STR_MASK == 240
ENCODING_16BIT_INT == 241
ENCODING_16BIT_INT_MASK == 255
ENCODING_24BIT_INT == 242
ENCODING_24BIT_INT_MASK == 255
ENCODING_32BIT_INT == 243
ENCODING_32BIT_INT_MASK == 255
ENCODING_64BIT_INT == 244
ENCODING_64BIT_INT_MASK == 255
ENCODING_32BIT_STR == 240
ENCODING_32BIT_STR_MASK == 255

\* A null element pointer (Option::None, std::ptr::null_mut()).
NULL == -1

(***************************************************************************)
(* Bit operations on naturals (u8, u16, u32 quantities).                   *)
(***************************************************************************)
RECURSIVE BitAnd(_, _)
BitAnd(a, b) ==
    IF a = 0 \/ b = 0 THEN 0
    ELSE (a % 2) * (b % 2) + 2 * BitAnd(a \div 2, b \div 2)

RECURSIVE BitOr(_, _)
BitOr(a, b) ==
    IF a = 0 THEN b
    ELSE IF b = 0 THEN a
    ELSE (IF a % 2 = 1 \/ b % 2 = 1 THEN 1 ELSE 0) + 2 * BitOr(a \div 2, b \div 2)

Shr(a, k) == a \div (2 ^ k)

(***************************************************************************)
(* 64-bit words: 8 bytes, least significant first.                         *)
(***************************************************************************)
\* The word of a natural below 2^31.
W64(n) == [k \in 1..8 |-> IF k <= 4 THEN (n \div (256 ^ (k - 1))) % 256 ELSE 0]

Not64(w) == [k \in 1..8 |-> 255 - w[k]]

\* The i64 of an integer of magnitude below 2^31.
I64(n) == IF n >= 0 THEN W64(n) ELSE Not64(W64(-(n + 1)))

\* 1 << k as a 64-bit word.
Pow2W(k) == [j \in 1..8 |-> IF j = (k \div 8) + 1 THEN 2 ^ (k % 8) ELSE 0]

U64_MAX == [k \in 1..8 |-> 255]

RECURSIVE ULtFrom(_, _, _)
ULtFrom(a, b, k) ==
    IF k = 0 THEN FALSE
    ELSE IF a[k] # b[k] THEN a[k] < b[k]
    ELSE ULtFrom(a, b, k - 1)

\* Unsigned comparison (u64).
ULt(a, b) == ULtFrom(a, b, 8)
ULe(a, b) == ~ULt(b, a)

\* Signed comparison (i64): the sign bit flipped, then unsigned.
FlipSign(w) == [w EXCEPT ![8] = (w[8] + 128) % 256]
SLt(a, b) == ULt(FlipSign(a), FlipSign(b))
SLe(a, b) == ~SLt(b, a)

RECURSIVE AddFrom(_, _, _, _)
AddFrom(a, b, k, c) ==
    IF k > 8 THEN <<>>
    ELSE LET s == a[k] + b[k] + c
         IN  <<s % 256>> \o AddFrom(a, b, k + 1, s \div 256)

\* Wrapping addition, subtraction and negation of 64-bit words.
Add64(a, b) == AddFrom(a, b, 1, 0)
Sub64(a, b) == Add64(a, Add64(Not64(b), W64(1)))
Neg64(a) == Sub64(W64(0), a)

\* (w >> 8*k) as u8, which is also ((w >> 8*k) & 0xff) as u8.
ByteOf(w, k) == w[k + 1]

(***************************************************************************)
(* Values: Value::Int(i64) and Value::String(ptr, len), the latter held as *)
(* the bytes the pointer designates.                                       *)
(***************************************************************************)
IntV(w) == [kind |-> "Int", v |-> w]
StrV(s) == [kind |-> "Str", v |-> s]

(***************************************************************************)
(* Memory.                                                                 *)
(***************************************************************************)
\* Reading a byte; outside the allocation the read yields whatever is there.
Rd(m, i) == IF i \in DOMAIN m THEN m[i] ELSE junk

\* A write is <<offset, bytes>>: the bytes stored from the offset on.
\* B is the write of one byte.
B(off, b) == <<off, <<b>>>>

\* A list of writes applied in order; the part of a write that falls outside
\* the allocation does not reach the buffer.
RECURSIVE Apply(_, _)
Apply(m, ws) ==
    IF ws = <<>> THEN m
    ELSE LET off == Head(ws)[1]
             bytes == Head(ws)[2]
         IN  Apply([i \in DOMAIN m |->
                        IF i >= off /\ i < off + Len(bytes)
                        THEN bytes[i - off + 1] ELSE m[i]],
                   Tail(ws))

\* The offsets a list of writes touches.
RECURSIVE Offsets(_)
Offsets(ws) ==
    IF ws = <<>> THEN {}
    ELSE (Head(ws)[1]..(Head(ws)[1] + Len(Head(ws)[2]) - 1)) \cup Offsets(Tail(ws))

(***************************************************************************)
(* Tag tests and length fields.                                            *)
(***************************************************************************)
is_7bit_uint(b) == BitAnd(b, ENCODING_7BIT_UINT_MASK) = ENCODING_7BIT_UINT
is_6bit_str(b) == BitAnd(b, ENCODING_6BIT_STR_MASK) = ENCODING_6BIT_STR
is_13bit_int(b) == BitAnd(b, ENCODING_13BIT_INT_MASK) = ENCODING_13BIT_INT
is_12bit_str(b) == BitAnd(b, ENCODING_12BIT_STR_MASK) = ENCODING_12BIT_STR
is_16bit_int(b) == BitAnd(b, ENCODING_16BIT_INT_MASK) = ENCODING_16BIT_INT
is_24bit_int(b) == BitAnd(b, ENCODING_24BIT_INT_MASK) = ENCODING_24BIT_INT
is_32bit_int(b) == BitAnd(b, ENCODING_32BIT_INT_MASK) = ENCODING_32BIT_INT
is_32bit_str(b) == BitAnd(b, ENCODING_32BIT_STR_MASK) = ENCODING_32BIT_STR
\* is_64bit_int with a mask of the high nibble only.
is_64bit_int_high_nibble(b) == BitAnd(b, 240) = 240
is_64bit_int(b) == BitAnd(b, ENCODING_64BIT_INT_MASK) = ENCODING_64BIT_INT

str_len_6bit(m, p) == BitAnd(Rd(m, p), 63)

\* ((*p) & 0xF) as u32 | (*p.offset(1)) as u32: the source does not shift
\* the high nibble.
str_len_12bit(m, p) == BitOr(BitAnd(Rd(m, p), 15), Rd(m, p + 1))

str_len_32bit(m, p) ==
    Rd(m, p + 1) + Rd(m, p + 2) * 256 + Rd(m, p + 3) * 65536
        + Rd(m, p + 4) * 16777216

get_total_bytes(m) ==
    Rd(m, 0) + Rd(m, 1) * 256 + Rd(m, 2) * 65536 + Rd(m, 3) * 16777216

\* The four header writes of set_total_bytes.
set_total_bytes(v) ==
    << B(0, BitAnd(v, 255)),
       B(1, BitAnd(Shr(v, 8), 255)),
       B(2, BitAnd(Shr(v, 16), 255)),
       B(3, BitAnd(Shr(v, 24), 255)) >>

get_num_elements(m) == Rd(m, 4) + Rd(m, 5) * 256

\* The two header writes of set_num_elements; v is a u16.
set_num_elements(v) ==
    << B(4, BitAnd(v, 255)), B(5, BitAnd(Shr(v, 8), 255)) >>

(***************************************************************************)
(* Integer encoding.                                                       *)
(***************************************************************************)
\* encode_int: the bytes written to intenc; their number is the result.
encode_int(v) ==
    IF SLe(I64(0), v) /\ SLe(v, I64(127)) THEN
        <<ByteOf(v, 0)>>
    ELSE IF SLe(I64(-4096), v) /\ SLe(v, I64(4095)) THEN
        LET x == IF SLt(v, I64(0)) THEN Add64(Pow2W(13), v) ELSE v
        IN  <<BitOr(ByteOf(x, 1), ENCODING_13BIT_INT), ByteOf(x, 0)>>
    ELSE IF SLe(I64(-32768), v) /\ SLe(v, I64(32767)) THEN
        LET x == IF SLt(v, I64(0)) THEN Add64(Pow2W(16), v) ELSE v
        IN  <<ENCODING_16BIT_INT, ByteOf(x, 0), ByteOf(x, 1)>>
    ELSE IF SLe(I64(-8388608), v) /\ SLe(v, I64(8388607)) THEN
        LET x == IF SLt(v, I64(0)) THEN Add64(Pow2W(24), v) ELSE v
        IN  <<ENCODING_24BIT_INT, ByteOf(x, 0), ByteOf(x, 1), ByteOf(x, 2)>>
    ELSE IF SLe(I64(-2147483647 - 1), v) /\ SLe(v, I64(2147483647)) THEN
        LET x == IF SLt(v, I64(0)) THEN Add64(Pow2W(32), v) ELSE v
        IN  <<ENCODING_32BIT_INT, ByteOf(x, 0), ByteOf(x, 1), ByteOf(x, 2),
              ByteOf(x, 3)>>
    ELSE
        <<ENCODING_64BIT_INT, ByteOf(v, 0), ByteOf(v, 1), ByteOf(v, 2),
          ByteOf(v, 3), ByteOf(v, 4), ByteOf(v, 5), ByteOf(v, 6), ByteOf(v, 7)>>

(***************************************************************************)
(* Backlen codec.                                                          *)
(***************************************************************************)
\* encode_backlen: the bytes written to buf; their number is the result.
encode_backlen(l) ==
    IF l <= 127 THEN
        <<l>>
    ELSE IF l < 16383 THEN
        <<Shr(l, 7), BitOr(BitAnd(l, 127), 128)>>
    ELSE IF l < 2097151 THEN
        <<Shr(l, 14), BitOr(BitAnd(Shr(l, 7), 127), 128),
          BitOr(BitAnd(l, 127), 128)>>
    ELSE IF l < 268435455 THEN
        <<Shr(l, 21), BitOr(BitAnd(Shr(l, 14), 127), 128),
          BitOr(BitAnd(Shr(l, 7), 127), 128), BitOr(BitAnd(l, 127), 128)>>
    ELSE
        <<Shr(l, 28), BitOr(BitAnd(Shr(l, 21), 127), 128),
          BitOr(BitAnd(Shr(l, 14), 127), 128),
          BitOr(BitAnd(Shr(l, 7), 127), 128), BitOr(BitAnd(l, 127), 128)>>

backlen_size(l) ==
    IF l <= 127 THEN 1
    ELSE IF l < 16383 THEN 2
    ELSE IF l < 2097151 THEN 3
    ELSE IF l < 268435455 THEN 4
    ELSE 5

\* decode_backlen_loop giving up one byte early, at the fifth byte.
RECURSIVE decode_backlen_loop_early_max(_, _, _, _)
decode_backlen_loop_early_max(m, buf, val, shift) ==
    LET b == Rd(m, buf)
        chunk == BitAnd(b, 127)
    IN  IF BitAnd(b, 128) = 0
        THEN [max |-> FALSE, hi |-> 0, lo |-> val + chunk * (2 ^ shift)]
        ELSE IF shift + 7 > 21 THEN [max |-> TRUE, hi |-> 0, lo |-> 0]
        ELSE decode_backlen_loop_early_max(m, buf - 1,
                                           val + chunk * (2 ^ shift), shift + 7)

\* decode_backlen scans backward from buf.  The u64 result is held as
\* [max, hi, lo]: max is the saturated return u64::MAX, otherwise the value
\* is hi * 2^28 + lo (hi is the chunk of the fifth byte).
RECURSIVE decode_backlen_loop(_, _, _, _)
decode_backlen_loop(m, buf, val, shift) ==
    LET b == Rd(m, buf)
        chunk == BitAnd(b, 127)
        hi == IF shift = 28 THEN chunk ELSE 0
        lo == IF shift = 28 THEN val ELSE val + chunk * (2 ^ shift)
    IN  IF BitAnd(b, 128) = 0 THEN [max |-> FALSE, hi |-> hi, lo |-> lo]
        ELSE IF shift + 7 > 28 THEN [max |-> TRUE, hi |-> 0, lo |-> 0]
        ELSE decode_backlen_loop(m, buf - 1, lo, shift + 7)

\* The offsets decode_backlen reads: *buf.offset(0) once per turn of the
\* loop; the pointer is moved before the test of shift but not read there.
RECURSIVE decode_backlen_reads(_, _, _)
decode_backlen_reads(m, buf, shift) ==
    {buf} \cup (IF BitAnd(Rd(m, buf), 128) = 0 THEN {}
               ELSE IF shift + 7 > 28 THEN {}
               ELSE decode_backlen_reads(m, buf - 1, shift + 7))

\* decode_backlen with the shift advanced before the first byte is taken.
decode_backlen_early_shift(m, buf) == decode_backlen_loop(m, buf, 0, 7)

decode_backlen(m, buf) == decode_backlen_loop(m, buf, 0, 0)

(***************************************************************************)
(* Value: sizes and the entry writer.                                      *)
(***************************************************************************)
\* Value::encoded_size
encoded_size(val) ==
    IF val.kind = "Int" THEN
        LET v == val.v
        IN  IF SLe(I64(0), v) /\ SLe(v, I64(127)) THEN 1
            ELSE IF SLe(I64(-4096), v) /\ SLe(v, I64(4095)) THEN 2
            ELSE IF SLe(I64(-32768), v) /\ SLe(v, I64(32767)) THEN 3
            ELSE IF SLe(I64(-8388608), v) /\ SLe(v, I64(8388607)) THEN 4
            ELSE IF SLe(I64(-2147483647 - 1), v) /\ SLe(v, I64(2147483647)) THEN 5
            ELSE 9
    ELSE
        LET size == Len(val.v)
        IN  IF size < 64 THEN 1 + size
            ELSE IF size < 4096 THEN 2 + size
            ELSE 5 + size

\* Value::size_for_write
size_for_write(val) == encoded_size(val) + backlen_size(encoded_size(val))

\* Value::encode_backlen: the writes at buf, buf+1, ...
value_encode_backlen(buf, l) ==
    IF l <= 127 THEN
        << B(buf, l) >>
    ELSE IF l < 16383 THEN
        << B(buf, Shr(l, 7)), B(buf + 1, BitOr(BitAnd(l, 127), 128)) >>
    ELSE IF l < 2097151 THEN
        << B(buf, Shr(l, 14)),
           B(buf + 1, BitOr(BitAnd(Shr(l, 7), 127), 128)),
           B(buf + 2, BitOr(BitAnd(l, 127), 128)) >>
    ELSE IF l < 268435455 THEN
        << B(buf, Shr(l, 21)),
           B(buf + 1, BitOr(BitAnd(Shr(l, 14), 127), 128)),
           B(buf + 2, BitOr(BitAnd(Shr(l, 7), 127), 128)),
           B(buf + 3, BitOr(BitAnd(l, 127), 128)) >>
    ELSE
        << B(buf, Shr(l, 28)),
           B(buf + 1, BitOr(BitAnd(Shr(l, 21), 127), 128)),
           B(buf + 2, BitOr(BitAnd(Shr(l, 14), 127), 128)),
           B(buf + 3, BitOr(BitAnd(Shr(l, 7), 127), 128)),
           B(buf + 4, BitOr(BitAnd(l, 127), 128)) >>

\* ptr::copy_nonoverlapping(ele, dst, size): the writes of a byte string.
copy_bytes(dst, s) == << <<dst, s>> >>

\* Value::encode(&self, dst, encoded_size): the writes it makes, in order.
\* The argument is the entry's whole size (tag, payload and backlen), as
\* every caller passes size_for_write().
encode(val, dst, esize) ==
    IF val.kind = "Int" THEN
        LET v == val.v
        IN  IF esize = 2 THEN
                << B(dst, ByteOf(v, 0)), B(dst + 1, 1) >>
            ELSE IF esize = 3 THEN
                LET x == IF SLt(v, I64(0)) THEN Add64(Pow2W(13), v) ELSE v
                IN  << B(dst, BitOr(ByteOf(x, 1), ENCODING_13BIT_INT)),
                       B(dst + 1, ByteOf(x, 0)),
                       B(dst + 2, 2) >>
            ELSE IF esize = 4 THEN
                LET x == IF SLt(v, I64(0)) THEN Add64(Pow2W(16), v) ELSE v
                IN  << B(dst, ENCODING_16BIT_INT),
                       B(dst + 1, ByteOf(x, 0)),
                       B(dst + 2, ByteOf(x, 1)),
                       B(dst + 3, 3) >>
            ELSE IF esize = 5 THEN
                LET x == IF SLt(v, I64(0)) THEN Add64(Pow2W(24), v) ELSE v
                IN  << B(dst, ENCODING_24BIT_INT),
                       B(dst + 1, ByteOf(x, 0)),
                       B(dst + 2, ByteOf(x, 1)),
                       B(dst + 3, ByteOf(x, 2)),
                       B(dst + 4, 4) >>
            ELSE IF esize = 6 THEN
                LET x == IF SLt(v, I64(0)) THEN Add64(Pow2W(32), v) ELSE v
                IN  << B(dst, ENCODING_32BIT_INT),
                       B(dst + 1, ByteOf(x, 0)),
                       B(dst + 2, ByteOf(x, 1)),
                       B(dst + 3, ByteOf(x, 2)),
                       B(dst + 4, ByteOf(x, 3)),
                       B(dst + 5, 5) >>
            ELSE IF esize = 10 THEN
                << B(dst, ENCODING_64BIT_INT),
                   B(dst + 1, ByteOf(v, 0)),
                   B(dst + 2, ByteOf(v, 1)),
                   B(dst + 3, ByteOf(v, 2)),
                   B(dst + 4, ByteOf(v, 3)),
                   B(dst + 5, ByteOf(v, 4)),
                   B(dst + 6, ByteOf(v, 5)),
                   B(dst + 7, ByteOf(v, 6)),
                   B(dst + 8, ByteOf(v, 7)),
                   B(dst + 9, 9) >>
            ELSE <<>>
    ELSE
        LET s == val.v
            size == Len(s)
        IN  IF size < 64 THEN
                << B(dst, BitOr(size, ENCODING_6BIT_STR)) >>
                    \o copy_bytes(dst + 1, s)
                    \o value_encode_backlen(dst + esize, size)
            ELSE IF size < 4096 THEN
                << B(dst, BitOr(Shr(size, 8), ENCODING_12BIT_STR)),
                   B(dst + 1, BitAnd(size, 255)) >>
                    \o copy_bytes(dst + 2, s)
                    \o value_encode_backlen(dst + esize, size)
            ELSE
                << B(dst, ENCODING_32BIT_STR),
                   B(dst + 1, BitAnd(size, 255)),
                   B(dst + 2, BitAnd(Shr(size, 8), 255)),
                   B(dst + 3, BitAnd(Shr(size, 16), 255)),
                   B(dst + 4, BitAnd(Shr(size, 24), 255)) >>
                    \o copy_bytes(dst + 5, s)
                    \o value_encode_backlen(dst + esize, size)

(***************************************************************************)
(* Decoding.                                                               *)
(***************************************************************************)
\* The bytes a returned Value::String(ptr, len) designates.
str_at(m, p, len) == [i \in 1..len |-> Rd(m, p + i - 1)]

\* A little-endian u64 assembled from the n bytes at p.
le_word(m, p, n) == [k \in 1..8 |-> IF k <= n THEN Rd(m, p + k - 1) ELSE 0]

\* 12345678900000000_u64
UNKNOWN_TAG_BASE == <<0, 117, 88, 93, 84, 220, 43, 0>>

\* to_signed with the final "- 1" of the conversion left out.
to_signed_no_minus_one(uval, negstart, negmax) ==
    IF ULe(negstart, uval)
    THEN Neg64(Sub64(negmax, uval))
    ELSE uval

\* The tail of get: the unsigned value to the signed one.
to_signed(uval, negstart, negmax) ==
    IF ULe(negstart, uval)
    THEN Sub64(Neg64(Sub64(negmax, uval)), W64(1))
    ELSE uval

get(m, p) ==
    LET b == Rd(m, p)
    IN  IF is_7bit_uint(b) THEN
            IntV(to_signed(W64(BitAnd(b, 127)), U64_MAX, W64(0)))
        ELSE IF is_6bit_str(b) THEN
            StrV(str_at(m, p + 1, str_len_6bit(m, p)))
        ELSE IF is_13bit_int(b) THEN
            IntV(to_signed(W64(BitAnd(b, 31) * 256 + Rd(m, p + 1)),
                           Pow2W(12), W64(8191)))
        ELSE IF is_16bit_int(b) THEN
            IntV(to_signed(le_word(m, p + 1, 2), Pow2W(15), W64(65535)))
        ELSE IF is_24bit_int(b) THEN
            IntV(to_signed(le_word(m, p + 1, 3), Pow2W(23), W64(16777215)))
        ELSE IF is_32bit_int(b) THEN
            IntV(to_signed(le_word(m, p + 1, 4), Pow2W(31),
                           [k \in 1..8 |-> IF k <= 4 THEN 255 ELSE 0]))
        ELSE IF is_64bit_int(b) THEN
            IntV(to_signed(le_word(m, p + 1, 8), Pow2W(63), U64_MAX))
        ELSE IF is_12bit_str(b) THEN
            StrV(str_at(m, p + 2, str_len_12bit(m, p)))
        ELSE IF is_32bit_str(b) THEN
            StrV(str_at(m, p + 5, str_len_32bit(m, p)))
        ELSE
            IntV(to_signed(Add64(UNKNOWN_TAG_BASE, W64(b)), U64_MAX, W64(0)))

\* get_encoded_size with the 24-bit and 32-bit integer sizes exchanged.
get_encoded_size_swapped(m, p) ==
    LET b == Rd(m, p)
    IN  IF is_7bit_uint(b) THEN 1
        ELSE IF is_6bit_str(b) THEN 1 + str_len_6bit(m, p)
        ELSE IF is_13bit_int(b) THEN 2
        ELSE IF is_16bit_int(b) THEN 3
        ELSE IF is_24bit_int(b) THEN 5
        ELSE IF is_32bit_int(b) THEN 4
        ELSE IF is_64bit_int(b) THEN 9
        ELSE IF is_12bit_str(b) THEN 2 + str_len_12bit(m, p)
        ELSE IF is_32bit_str(b) THEN 5 + str_len_32bit(m, p)
        ELSE IF b = EOF THEN 1
        ELSE 0

get_encoded_size(m, p) ==
    LET b == Rd(m, p)
    IN  IF is_7bit_uint(b) THEN 1
        ELSE IF is_6bit_str(b) THEN 1 + str_len_6bit(m, p)
        ELSE IF is_13bit_int(b) THEN 2
        ELSE IF is_16bit_int(b) THEN 3
        ELSE IF is_24bit_int(b) THEN 4
        ELSE IF is_32bit_int(b) THEN 5
        ELSE IF is_64bit_int(b) THEN 9
        ELSE IF is_12bit_str(b) THEN 2 + str_len_12bit(m, p)
        ELSE IF is_32bit_str(b) THEN 5 + str_len_32bit(m, p)
        ELSE IF b = EOF THEN 1
        ELSE 0

(***************************************************************************)
(* Traversal.  An element pointer is its byte offset from the base of the  *)
(* buffer; Option::None and the null pointer are NULL.                     *)
(***************************************************************************)
first(m) ==
    LET l == HDR_SIZE
    IN  IF Rd(m, l) = EOF THEN NULL ELSE l

skip(m, p) ==
    LET entrylen == get_encoded_size(m, p)
    IN  p + entrylen + backlen_size(entrylen)

next(m, p) ==
    LET q == skip(m, p)
    IN  IF Rd(m, q) = EOF THEN NULL ELSE q

\* backlen_size applied to the u64 that decode_backlen returned.
backlen_size_of(d) == IF d.max \/ d.hi > 0 THEN 5 ELSE backlen_size(d.lo)

\* prev.  prevlen += backlen_size(prevlen) wraps around for the saturated
\* u64::MAX (to 4); a prevlen of 2^28 or more, whatever its fifth chunk,
\* leaves the pointer at least 2^28 bytes below the entry.
prev(m, p) ==
    IF p >= 0 /\ p <= HDR_USIZE THEN NULL
    ELSE LET q == p - 1
             d == decode_backlen(m, q)
             prevlen == IF d.max THEN 4
                        ELSE IF d.hi > 0 THEN (2 ^ 28) + d.lo + 5
                        ELSE d.lo + backlen_size_of(d)
         IN  q - prevlen + 1

last(m) == prev(m, get_total_bytes(m) - 1)

\* The elements a first/next walk visits, while it stays inside the
\* allocation; over says that the walk left the allocation without meeting
\* the EOF byte.
RECURSIVE WalkFrom(_, _)
WalkFrom(m, p) ==
    IF p = NULL THEN [els |-> <<>>, over |-> FALSE]
    ELSE IF p \notin DOMAIN m THEN [els |-> <<>>, over |-> TRUE]
    ELSE LET rest == WalkFrom(m, next(m, p))
         IN  [els |-> <<p>> \o rest.els, over |-> rest.over]

Walk(m) == WalkFrom(m, first(m))

\* The elements a last/prev walk visits, while it stays inside the
\* allocation.
RECURSIVE WalkBackFrom(_, _)
WalkBackFrom(m, p) ==
    IF p = NULL THEN [els |-> <<>>, over |-> FALSE]
    ELSE IF p \notin DOMAIN m THEN [els |-> <<>>, over |-> TRUE]
    ELSE LET rest == WalkBackFrom(m, prev(m, p))
         IN  [els |-> <<p>> \o rest.els, over |-> rest.over]

WalkBack(m) == WalkBackFrom(m, last(m))

\* The values get decodes at a sequence of elements.
ValuesAt(m, els) == [i \in 1..Len(els) |-> get(m, els[i])]

\* length: the count returned and the header writes made.  The scan of an
\* unknown count follows first/next; scanned says whether it ends at an EOF
\* byte inside the allocation.
\* The header stores of length with the range test left out.
length_store_unchecked(first_none, count) ==
    (IF first_none THEN set_num_elements(0) ELSE <<>>)
        \o set_num_elements(count % 65536)

\* The header stores length makes after a scan that counted count entries;
\* first_none says that first() returned None.
length_store(first_none, count) ==
    (IF first_none THEN set_num_elements(0) ELSE <<>>)
        \o (IF count < HDR_NUMELE_UNKNOWN
            THEN set_num_elements(count) ELSE <<>>)

length(m) ==
    LET numele == get_num_elements(m)
        w == Walk(m)
        count == Len(w.els)
    IN  IF numele # HDR_NUMELE_UNKNOWN
        THEN [count |-> numele, writes |-> <<>>, scanned |-> TRUE]
        ELSE [count |-> count,
              writes |-> length_store(first(m) = NULL, count),
              scanned |-> ~w.over]

\* seek: the forward scan from ele with index steps left.
RECURSIVE seek_forward(_, _, _)
seek_forward(m, ele, index) ==
    IF index > 0
    THEN IF next(m, ele) = NULL THEN NULL
         ELSE seek_forward(m, next(m, ele), index - 1)
    ELSE ele

\* seek: the backward scan from ele, index being negative.
RECURSIVE seek_backward(_, _, _)
seek_backward(m, ele, index) ==
    IF index < -1
    THEN IF prev(m, ele) = NULL THEN NULL
         ELSE seek_backward(m, prev(m, ele), index + 1)
    ELSE ele

\* seek, once the direction and the index in that direction are chosen.
seek_scan(m, forward, index) ==
    IF forward
    THEN IF first(m) = NULL THEN NULL ELSE seek_forward(m, first(m), index)
    ELSE IF last(m) = NULL THEN NULL ELSE seek_backward(m, last(m), index)

\* seek with a known header count numele; index is already made
\* non-negative where it was negative.
seek_known(m, numele, index) ==
    IF index < 0 THEN NULL
    ELSE IF index >= numele THEN NULL
    ELSE IF index > numele \div 2 THEN seek_scan(m, FALSE, index - numele)
    ELSE seek_scan(m, TRUE, index)

seek(m, index) ==
    IF get_num_elements(m) # HDR_NUMELE_UNKNOWN
    THEN seek_known(m, get_num_elements(m),
                    IF index < 0 THEN get_num_elements(m) + index ELSE index)
    ELSE seek_scan(m, index >= 0, index)

(***************************************************************************)
(* What uninitialised memory may hold: a byte that is a valid small        *)
(* integer tag and backlen, one that happens to be the backlen of a        *)
(* 2-byte payload, and the EOF byte.  alloc and realloc hand out memory    *)
(* whose new bytes hold one of these.                                      *)
(***************************************************************************)
Garbage == {0, 3, 255}

\* An allocation of n bytes, every byte holding g.
Fresh(n, g) == [i \in 0..(n - 1) |-> g]

\* Allocator::realloc(m, newsize): the bytes kept, new bytes holding g.
Realloc(m, newsize, g) ==
    [i \in 0..(newsize - 1) |-> IF i \in DOMAIN m THEN m[i] ELSE g]

(***************************************************************************)
(* The mutation engine.  Each operation yields [ok, mem, ele]: whether it  *)
(* returned Some, the buffer it leaves and the element pointer returned.   *)
(* g is what the bytes that realloc adds hold.  fault says that the call   *)
(* asks for a copy of negative length or an allocation of no bytes, which  *)
(* ends the program.                                                       *)
(***************************************************************************)
\* std::ptr::copy(src, dst, n) inside m: one write of the n bytes at src.
copy(m, src, dst, n) == << <<dst, [i \in 1..n |-> Rd(m, src + i - 1)]>> >>

Result(ok, m, ele, fault) == [ok |-> ok, mem |-> m, ele |-> ele, fault |-> fault]

\* new: alloc(HDR_USIZE + 1) and set_total_bytes; raw is the memory alloc
\* returned.
new(raw) == Apply(raw, set_total_bytes(HDR_USIZE + 1))

\* The header update that ends append and insert.
bump_header(m, new_listpack_bytes) ==
    LET num_elements == get_num_elements(m)
    IN  Apply(m, (IF num_elements # HDR_NUMELE_UNKNOWN
                  THEN set_num_elements(num_elements + 1) ELSE <<>>)
                 \o set_total_bytes(new_listpack_bytes))

\* append.  The test new_listpack_bytes > u32::max_value() compares a u32
\* and never holds.
append(m, v, g) ==
    LET esize == size_for_write(v)
        old_listpack_bytes == get_total_bytes(m)
        new_listpack_bytes == old_listpack_bytes + esize
        m1 == Realloc(m, new_listpack_bytes, g)
        p == old_listpack_bytes - 1
        m2 == Apply(m1, encode(v, p, esize))
        m3 == Apply(m2, <<B(new_listpack_bytes - 1, EOF)>>)
    IN  Result(TRUE, bump_header(m3, new_listpack_bytes), NULL, FALSE)

\* The three places where insert turns into append and returns last().
insert_as_append(m, v, g) ==
    LET r == append(m, v, g)
    IN  Result(TRUE, r.mem, last(r.mem), FALSE)

\* insert, once the entry size, the old total and the place p of the new
\* entry are known.
insert_at(m, v, g, esize, old_listpack_bytes, poff) ==
    LET new_listpack_bytes == old_listpack_bytes + esize
        m1 == Realloc(m, new_listpack_bytes, g)
        m2 == Apply(m1, copy(m1, poff, poff + esize,
                             old_listpack_bytes - poff))
        m3 == Apply(m2, encode(v, poff, esize))
        m4 == Apply(m3, <<B(new_listpack_bytes - 1, EOF)>>)
    IN  Result(TRUE, bump_header(m4, new_listpack_bytes), poff,
               old_listpack_bytes - poff < 0)

\* insert; place is "Before" or "After".
insert(m, v, place, target, g) ==
    IF target = NULL \/ Rd(m, target) = EOF
    THEN insert_as_append(m, v, g)
    ELSE IF place = "After" /\ next(m, target) = NULL
    THEN insert_as_append(m, v, g)
    ELSE insert_at(m, v, g, size_for_write(v), get_total_bytes(m),
                   IF place = "Before" THEN target ELSE next(m, target))

\* replace, once the two entry sizes, the old total and the successor ele
\* of p are known.
replace_sized(m, p, v, g, esize, old_size, old_listpack_bytes, ele) ==
    LET delta == esize - old_size
        poff == p
        new_listpack_bytes == old_listpack_bytes + delta
        eleoff == ele
    IN  IF old_size = esize THEN Result(TRUE, m, p, FALSE)
        ELSE IF p <= 0 \/ poff > new_listpack_bytes THEN Result(FALSE, m, NULL, FALSE)
        ELSE IF delta > 0 THEN
            IF ele # NULL THEN
                IF ele <= p THEN Result(FALSE, m, NULL, FALSE)
                ELSE LET m1 == Realloc(m, new_listpack_bytes, g)
                         m2 == Apply(m1, copy(m1, eleoff, eleoff + delta,
                                              old_listpack_bytes - eleoff))
                     IN  Result(TRUE, Apply(m2, set_total_bytes(new_listpack_bytes)),
                                poff, old_listpack_bytes - eleoff < 0)
            ELSE LET m1 == Realloc(m, new_listpack_bytes, g)
                     m2 == Apply(m1, encode(v, poff, esize))
                     m3 == Apply(m2, <<B(new_listpack_bytes - 1, EOF)>>)
                 IN  Result(TRUE, Apply(m3, set_total_bytes(new_listpack_bytes)),
                            poff, FALSE)
        ELSE
            IF ele # NULL THEN
                IF ele <= p THEN Result(FALSE, m, NULL, FALSE)
                ELSE LET m1 == Apply(m, copy(m, eleoff, eleoff + delta,
                                             old_listpack_bytes - eleoff))
                         m2 == Apply(m1, encode(v, poff, esize))
                         m3 == Realloc(m2, new_listpack_bytes, g)
                     IN  Result(TRUE, Apply(m3, set_total_bytes(new_listpack_bytes)),
                                poff,
                                old_listpack_bytes - eleoff < 0
                                    \/ new_listpack_bytes <= 0)
            ELSE LET m1 == Apply(m, encode(v, poff, esize))
                     m2 == Apply(m1, <<B(new_listpack_bytes - 1, EOF)>>)
                     m3 == Realloc(m2, new_listpack_bytes, g)
                 IN  Result(TRUE, Apply(m3, set_total_bytes(new_listpack_bytes)),
                            poff, new_listpack_bytes <= 0)

\* replace.
replace(m, p, v, g) ==
    IF p = NULL \/ Rd(m, p) = EOF THEN Result(FALSE, m, NULL, FALSE)
    ELSE replace_sized(m, p, v, g, size_for_write(v),
                       size_for_write(get(m, p)), get_total_bytes(m),
                       next(m, p))

\* delete.  The element returned after a shift is the pointer passed in.
delete(m, p, g) ==
    LET esize == get_encoded_size(m, p)
        blsize == backlen_size(esize)
        entry_size == esize + blsize
        newp == next(m, p)
        old_listpack_bytes == get_total_bytes(m)
    IN  IF newp = NULL THEN
            IF old_listpack_bytes = HDR_USIZE + 1 THEN Result(FALSE, m, NULL, FALSE)
            ELSE LET new_listpack_bytes == old_listpack_bytes - esize - blsize
                     m1 == Realloc(m, new_listpack_bytes, g)
                     m2 == Apply(m1, <<B(new_listpack_bytes - 1, EOF)>>)
                 IN  Result(TRUE, m2, last(m2), new_listpack_bytes <= 0)
        ELSE IF p < 0 THEN Result(FALSE, m, NULL, FALSE)
        ELSE LET poff == p
                 new_listpack_bytes == old_listpack_bytes - entry_size
                 m1 == Apply(m, copy(m, poff + entry_size, poff,
                                     old_listpack_bytes - (poff + entry_size)))
                 m2 == Realloc(m1, new_listpack_bytes, g)
                 num_elements == get_num_elements(m2)
                 m3 == Apply(m2, (IF num_elements # HDR_NUMELE_UNKNOWN
                                  THEN set_num_elements((num_elements + 65535) % 65536)
                                  ELSE <<>>)
                                 \o set_total_bytes(new_listpack_bytes))
             IN  Result(TRUE, m3, p,
                        old_listpack_bytes - (poff + entry_size) < 0
                            \/ new_listpack_bytes <= 0)

(***************************************************************************)
(* The listpack as a state machine: a buffer made by new, then any         *)
(* sequence of append, insert, replace, delete and length calls, each on   *)
(* an element that a first/next walk of the current buffer yields.         *)
(***************************************************************************)
\* The values the calls store.
Vals == {IntV(I64(5)), IntV(I64(6)), IntV(I64(300)), StrV(<<104, 105>>)}

NoInput == [kind |-> "none"]

Ret(op, ok, ele, n) == [op |-> op, ok |-> ok, ele |-> ele, n |-> n]

AllocSize(m) == Cardinality(DOMAIN m)

\* The buffers the machine follows: the allocation holds at least a header
\* and one more byte, and at most MaxBytes bytes.  A call that would shrink
\* the allocation into the header (delete on a buffer whose total_bytes is
\* stale) is not followed further.
Followed(m) == AllocSize(m) >= HDR_USIZE + 1 /\ AllocSize(m) <= MaxBytes

\* The position of element t in the walk els (0 when it is not there).
IndexOf(els, t) ==
    IF \E i \in 1..Len(els) : els[i] = t
    THEN CHOOSE i \in 1..Len(els) : els[i] = t
    ELSE 0

\* Ghost updates: what each call should do to the sequence of values.
InsertAt(sq, i, v) ==
    IF i < 1 \/ i > Len(sq) THEN sq \o <<v>>
    ELSE SubSeq(sq, 1, i - 1) \o <<v>> \o SubSeq(sq, i, Len(sq))

ReplaceAt(sq, i, v) ==
    IF i < 1 \/ i > Len(sq) THEN sq ELSE [sq EXCEPT ![i] = v]

RemoveAt(sq, i) ==
    IF i < 1 \/ i > Len(sq) THEN sq
    ELSE SubSeq(sq, 1, i - 1) \o SubSeq(sq, i + 1, Len(sq))

\* The memory alloc hands to new: bytes 0..3 are overwritten at once; the
\* two bytes of num_elements hold g4 and the byte after the header holds g6.
RawAlloc(g4, g6) ==
    [i \in 0..HDR_USIZE |-> IF i \in {4, 5} THEN g4
                            ELSE IF i = 6 THEN g6 ELSE 0]

Init ==
    /\ \E g4 \in Garbage, g6 \in Garbage : lp = new(RawAlloc(g4, g6))
    /\ allocated = HDR_USIZE + 1
    /\ calls = 0
    /\ junk \in Garbage
    /\ shadow = <<>>
    /\ ret = Ret("new", TRUE, NULL, 0)
    /\ pc = "idle"
    /\ input = NoInput

\* What every mutating call leaves: the buffer and the element it returns.
\* sh is the ghost sequence after a call that returned Some.
Returns(op, r, sh) ==
    /\ ~r.fault
    /\ Followed(r.mem)
    /\ lp' = r.mem
    /\ allocated' = AllocSize(r.mem)
    /\ ret' = Ret(op, r.ok, r.ele, 0)
    /\ shadow' = IF r.ok THEN sh ELSE shadow
    /\ calls' = calls + 1
    /\ UNCHANGED <<junk, pc, input>>

\* The ghost sequence after insert(v, place, target) when target is the
\* i-th element of the walk (i = 0: target is not an element).
InsertShadow(v, place, i) ==
    IF i = 0 THEN Append(shadow, v)
    ELSE IF place = "Before" THEN InsertAt(shadow, i, v)
    ELSE InsertAt(shadow, i + 1, v)

CallAppend(v) ==
    /\ calls < MaxCalls
    /\ Len(shadow) < MaxEntries
    /\ get_total_bytes(lp) + size_for_write(v) <= MaxBytes
    /\ Returns("append", append(lp, v, junk), Append(shadow, v))

CallInsert(v, place, target) ==
    /\ calls < MaxCalls
    /\ Len(shadow) < MaxEntries
    /\ get_total_bytes(lp) + size_for_write(v) <= MaxBytes
    /\ Returns("insert", insert(lp, v, place, target, junk),
               InsertShadow(v, place, IndexOf(Walk(lp).els, target)))

CallReplace(target, v) ==
    /\ calls < MaxCalls
    /\ get_total_bytes(lp) + size_for_write(v) <= MaxBytes
    /\ Returns("replace", replace(lp, target, v, junk),
               ReplaceAt(shadow, IndexOf(Walk(lp).els, target), v))

CallDelete(target) ==
    /\ calls < MaxCalls
    /\ Returns("delete", delete(lp, target, junk),
               RemoveAt(shadow, IndexOf(Walk(lp).els, target)))

CallLength ==
    /\ calls < MaxCalls
    /\ LET r == length(lp)
       IN  /\ r.scanned
           /\ lp' = Apply(lp, r.writes)
           /\ ret' = Ret("length", TRUE, NULL, r.count)
    /\ calls' = calls + 1
    /\ UNCHANGED <<allocated, junk, shadow, pc, input>>

\* The elements a caller can hold: those of a first/next walk.
Elements == {Walk(lp).els[i] : i \in 1..Len(Walk(lp).els)}

\* The targets insert is called with: an element, the null pointer or the
\* EOF byte that ends the buffer.
Targets == Elements \cup {NULL, get_total_bytes(lp) - 1}

Next ==
    \/ \E v \in Vals : CallAppend(v)
    \/ \E v \in Vals, place \in {"Before", "After"}, t \in Targets :
           CallInsert(v, place, t)
    \/ \E v \in Vals, t \in Elements : CallReplace(t, v)
    \/ \E t \in Elements : CallDelete(t)
    \/ CallLength

Spec == Init /\ [][Next]_vars

(***************************************************************************)
(* Claims about the header and the EOF byte, under Spec.                   *)
(***************************************************************************)
\* C1: in every state reached from new() by append, insert, replace and
\* delete calls, the header field total_bytes equals the size of the
\* current allocation (the size last passed to alloc/realloc).
C1_TotalBytesIsAllocation == get_total_bytes(lp) = allocated

\* C2: in every state reached from new() by append, insert, replace, delete
\* and length calls, the header field num_elements is the number of entries
\* the calls have left in the buffer, or the sentinel 0xFFFF.
C2_NumElementsExactOrUnknown ==
    \/ get_num_elements(lp) = HDR_NUMELE_UNKNOWN
    \/ get_num_elements(lp) = Len(shadow)

\* C3: in every state reached from new() by append, insert, replace and
\* delete calls, the byte at offset total_bytes - 1, the last byte of the
\* allocation, is the EOF byte 0xFF.
C3_EofIsLastByte ==
    /\ get_total_bytes(lp) - 1 \in DOMAIN lp
    /\ lp[get_total_bytes(lp) - 1] = EOF
    /\ lp[allocated - 1] = EOF

\* C4: new() returns a 7-byte buffer with total_bytes = 7, num_elements = 0
\* and the EOF byte at offset 6, whatever alloc returned; first() and
\* last() on it are None and length() is 0.
C4_NewIsEmpty ==
    ret.op = "new" =>
        /\ allocated = HDR_USIZE + 1
        /\ get_total_bytes(lp) = HDR_USIZE + 1
        /\ get_num_elements(lp) = 0
        /\ lp[HDR_USIZE] = EOF
        /\ first(lp) = NULL
        /\ last(lp) = NULL
        /\ length(lp).count = 0

(***************************************************************************)
(* Claims about single calls, under Spec.  Each is stated for a call made  *)
(* on a buffer that is as the calls before should have left it.            *)
(***************************************************************************)
\* The buffer holds exactly the values of the ghost sequence: header, walk
\* and EOF byte agree with it.
WellFormed ==
    /\ get_total_bytes(lp) = allocated
    /\ get_num_elements(lp) = Len(shadow)
    /\ lp[allocated - 1] = EOF
    /\ ~Walk(lp).over
    /\ ValuesAt(lp, Walk(lp).els) = shadow

\* What the forward walk of the buffer after the step decodes.
WalkedValues(m) == ValuesAt(m, Walk(m).els)

\* C12: after delete(p) succeeds on an entry p (first, last or only entry),
\* the forward traversal yields the previous sequence without that entry,
\* num_elements is smaller by 1 and total_bytes is smaller by the entry's
\* tag+payload+backlen size.
C12_DeleteConsistency ==
    [][\A t \in Elements :
        (/\ WellFormed
         /\ ret'.op = "delete"
         /\ ret'.ok
         /\ lp' = delete(lp, t, junk).mem
         /\ shadow' = RemoveAt(shadow, IndexOf(Walk(lp).els, t)))
        => /\ ~Walk(lp').over
           /\ WalkedValues(lp') = shadow'
           /\ get_num_elements(lp') = get_num_elements(lp) - 1
           /\ get_total_bytes(lp') = get_total_bytes(lp) - (skip(lp, t) - t)]_vars

\* The step is replace(t, v) returning Some.
IsReplace(t, v) ==
    /\ ret'.op = "replace"
    /\ ret'.ok
    /\ lp' = replace(lp, t, v, junk).mem
    /\ ret'.ele = replace(lp, t, v, junk).ele
    /\ shadow' = ReplaceAt(shadow, IndexOf(Walk(lp).els, t), v)

\* C13: replace(target, v) with v of the same encoded size as the entry at
\* target reallocates nothing and writes v in place: get on the returned
\* reference decodes to v, and total_bytes, num_elements and the other
\* entries are unchanged.
C13_ReplaceSameSize ==
    [][\A t \in Elements, v \in Vals :
        (/\ WellFormed
         /\ size_for_write(v) = skip(lp, t) - t
         /\ IsReplace(t, v))
        => /\ allocated' = allocated
           /\ ret'.ele = t
           /\ get(lp', ret'.ele) = v
           /\ get_total_bytes(lp') = get_total_bytes(lp)
           /\ get_num_elements(lp') = get_num_elements(lp)
           /\ WalkedValues(lp') = shadow']_vars

\* C14: replace(target, v) with v of another encoded size than the entry at
\* target, with or without a successor: the forward traversal afterwards
\* is the old sequence with v at target's index, num_elements is unchanged
\* and total_bytes has changed by the size difference.
C14_ReplaceOtherSize ==
    [][\A t \in Elements, v \in Vals :
        (/\ WellFormed
         /\ size_for_write(v) # skip(lp, t) - t
         /\ IsReplace(t, v))
        => /\ ~Walk(lp').over
           /\ WalkedValues(lp') = shadow'
           /\ get_num_elements(lp') = get_num_elements(lp)
           /\ get_total_bytes(lp') =
                  get_total_bytes(lp) + size_for_write(v) - (skip(lp, t) - t)]_vars

\* The step is insert(v, place, t).
IsInsert(v, place, t) ==
    /\ ret'.op = "insert"
    /\ lp' = insert(lp, v, place, t, junk).mem
    /\ ret'.ele = insert(lp, v, place, t, junk).ele
    /\ shadow' = InsertShadow(v, place, IndexOf(Walk(lp).els, t))

\* C15: insert(v, Before, target) on an entry puts v at target's index and
\* insert(v, After, target) at the index after it: the forward traversal
\* afterwards is the old sequence with v inserted there, num_elements is
\* one more, and get on the returned reference decodes to v.
C15_InsertPlacement ==
    [][\A t \in Elements, v \in Vals, place \in {"Before", "After"} :
        (WellFormed /\ IsInsert(v, place, t))
        => /\ ~Walk(lp').over
           /\ WalkedValues(lp') = shadow'
           /\ get_num_elements(lp') = get_num_elements(lp) + 1
           /\ get(lp', ret'.ele) = v]_vars

\* C16: insert(v, After, last entry) and insert(v, Before or After, null or
\* EOF target) leave the buffer exactly as append(v) does, and the returned
\* reference is the newly appended last entry.
C16_InsertAsAppend ==
    [][\A t \in Targets, v \in Vals, place \in {"Before", "After"} :
        (/\ WellFormed
         /\ IsInsert(v, place, t)
         /\ \/ t = NULL
            \/ lp[t] = EOF
            \/ place = "After" /\ next(lp, t) = NULL)
        => /\ lp' = append(lp, v, junk).mem
           /\ ret'.ele = get_total_bytes(lp) - 1
           /\ get(lp', ret'.ele) = v]_vars

\* The step is delete(t) returning Some.
IsDelete(t) ==
    /\ ret'.op = "delete"
    /\ ret'.ok
    /\ lp' = delete(lp, t, junk).mem
    /\ ret'.ele = delete(lp, t, junk).ele
    /\ shadow' = RemoveAt(shadow, IndexOf(Walk(lp).els, t))

\* C17: delete(p) returns a reference to the former successor of p, which
\* now occupies the deleted position, when p had a successor, and no
\* element reference when the deleted entry was the last one.
C17_DeleteReturn ==
    [][\A t \in Elements :
        (WellFormed /\ IsDelete(t))
        => IF next(lp, t) # NULL
           THEN ret'.ele = t /\ get(lp', ret'.ele) = get(lp, next(lp, t))
           ELSE ret'.ele = NULL]_vars

\* C18: in every state reached from new() by append, insert, replace and
\* delete calls, length() returns the number of entries a first/next walk
\* visits, whether the header count is known or the sentinel.
C18_LengthIsCount ==
    (ret.op = "length" /\ ~Walk(lp).over) => ret.n = Len(Walk(lp).els)

(***************************************************************************)
(* The codec drill: one value is written as an entry and read back.        *)
(***************************************************************************)
W_I64_MIN == <<0, 0, 0, 0, 0, 0, 0, 128>>
W_I64_MAX == <<255, 255, 255, 255, 255, 255, 255, 127>>
W_2P31 == <<0, 0, 0, 128, 0, 0, 0, 0>>
W_M2P31M1 == <<255, 255, 255, 127, 255, 255, 255, 255>>

\* Integers under test, each with the tag+payload size the range table of
\* the specification gives it.
IntCases ==
    { <<W_I64_MIN, 9>>, <<W_M2P31M1, 9>>, <<I64(-2147483647 - 1), 5>>,
      <<I64(-8388609), 5>>, <<I64(-8388608), 4>>, <<I64(-32769), 4>>,
      <<I64(-32768), 3>>, <<I64(-4097), 3>>, <<I64(-4096), 2>>,
      <<I64(-1), 2>>, <<I64(0), 1>>, <<I64(20), 1>>, <<I64(127), 1>>,
      <<I64(128), 2>>, <<I64(4095), 2>>, <<I64(4096), 3>>,
      <<I64(32767), 3>>, <<I64(32768), 4>>, <<I64(8388607), 4>>,
      <<I64(8388608), 5>>, <<I64(2147483647), 5>>, <<W_2P31, 9>>,
      <<W_I64_MAX, 9>> }

\* String lengths under test, and the bytes of the string of each length.
StrLens == {0, 1, 5, 63, 64, 65, 255, 256, 257, 4095, 4096}
StrOfLen(n) == [i \in 1..n |-> 97 + (i % 26)]

\* Backlen sizes under test.
BacklenCases ==
    {1, 127, 128, 16382, 16383, 2097150, 2097151, 268435454, 268435455}

DrillInputs ==
    {[kind |-> "Int", v |-> c[1], cls |-> c[2]] : c \in IntCases}
        \cup {[kind |-> "Str", v |-> StrOfLen(n), cls |-> 0] : n \in StrLens}
        \cup {[kind |-> "Len", v |-> l, cls |-> 0] : l \in BacklenCases}

NoRet == [op |-> "none"]

InitCodec ==
    /\ pc = "start"
    /\ input \in DrillInputs
    /\ junk \in Garbage
    /\ lp = Fresh(0, 0)
    /\ allocated = 0
    /\ calls = 0
    /\ shadow = <<>>
    /\ ret = NoRet

\* Value::encode into the size_for_write() bytes its callers make room for.
WriteEntry ==
    /\ pc = "start"
    /\ input.kind \in {"Int", "Str"}
    /\ LET val == [kind |-> input.kind, v |-> input.v]
           esize == size_for_write(val)
       IN  /\ lp' = Apply(Fresh(esize, junk), encode(val, 0, esize))
           /\ allocated' = esize
           /\ ret' = [op |-> "encode", size |-> encoded_size(val)]
    /\ pc' = "written"
    /\ UNCHANGED <<junk, shadow, calls, input>>

\* encode_int into the 9-byte intenc array.
WriteIntenc ==
    /\ pc = "start"
    /\ input.kind = "Int"
    /\ LET bytes == encode_int(input.v)
       IN  /\ lp' = Apply(Fresh(9, junk), << <<0, bytes>> >>)
           /\ ret' = [op |-> "encode_int", size |-> Len(bytes)]
    /\ allocated' = 9
    /\ pc' = "written"
    /\ UNCHANGED <<junk, shadow, calls, input>>

\* get and get_encoded_size on the entry written.
ReadEntry ==
    /\ pc = "written"
    /\ ret' = [op |-> "get", from |-> ret.op, wrote |-> ret.size,
               value |-> get(lp, 0), size |-> get_encoded_size(lp, 0)]
    /\ pc' = "read"
    /\ UNCHANGED <<lp, allocated, junk, shadow, calls, input>>

\* encode_backlen into the buf array (the bytes it returns as used).
WriteBacklen ==
    /\ pc = "start"
    /\ input.kind = "Len"
    /\ LET bytes == encode_backlen(input.v)
       IN  /\ lp' = [i \in 0..(Len(bytes) - 1) |-> bytes[i + 1]]
           /\ allocated' = Len(bytes)
           /\ ret' = [op |-> "encode_backlen", size |-> Len(bytes)]
    /\ pc' = "backlen"
    /\ UNCHANGED <<junk, shadow, calls, input>>

\* decode_backlen started at the last byte written.
ReadBacklen ==
    /\ pc = "backlen"
    /\ ret' = [op |-> "decode_backlen", wrote |-> ret.size,
               value |-> decode_backlen(lp, allocated - 1)]
    /\ pc' = "read"
    /\ UNCHANGED <<lp, allocated, junk, shadow, calls, input>>

NextCodec ==
    \/ WriteEntry
    \/ WriteIntenc
    \/ ReadEntry
    \/ WriteBacklen
    \/ ReadBacklen

SpecCodec == InitCodec /\ [][NextCodec]_vars

(***************************************************************************)
(* Appends only: a buffer made by new, then up to MaxAppends append calls, *)
(* with values of every string prefix class below 4096 bytes and integers  *)
(* of the smallest and the largest class.                                  *)
(***************************************************************************)
\* A string of n bytes b.
StrFill(n, b) == [i \in 1..n |-> b]

AppendVals ==
    { IntV(I64(5)), IntV(W_I64_MIN), StrV(StrOfLen(2)), StrV(StrOfLen(64)),
      StrV(StrFill(256, 255)) }

AppendValue(v) ==
    /\ Len(shadow) < MaxAppends
    /\ lp' = append(lp, v, junk).mem
    /\ allocated' = get_total_bytes(lp) + size_for_write(v)
    /\ ret' = Ret("append", TRUE, NULL, 0)
    /\ shadow' = Append(shadow, v)
    /\ calls' = calls + 1
    /\ UNCHANGED <<junk, pc, input>>

\* The indices seek is called with: every position of the buffer from
\* either end, and one beyond on both sides.
SeekIndices == (-(MaxAppends + 1))..MaxAppends

\* seek(index) on the buffer the appends have left.
CallSeek(index) ==
    /\ ret' = Ret("seek", seek(lp, index) # NULL, seek(lp, index), index)
    /\ UNCHANGED <<lp, allocated, junk, shadow, calls, pc, input>>

NextAppend ==
    \/ \E v \in AppendVals : AppendValue(v)
    \/ \E index \in SeekIndices : CallSeek(index)

SpecAppend == Init /\ [][NextAppend]_vars

Reverse(sq) == [i \in 1..Len(sq) |-> sq[Len(sq) + 1 - i]]

\* C5: after N >= 1 appends to a new listpack, the walk from first() with
\* next() visits exactly N entries, whose decoded values are the appended
\* values in insertion order, and then next() returns None.
C5_ForwardWalk ==
    ret.op = "append" =>
        /\ ~Walk(lp).over
        /\ ValuesAt(lp, Walk(lp).els) = shadow

\* C6: after N >= 1 appends to a new listpack, the walk from last() with
\* prev() visits exactly N entries, whose decoded values are the appended
\* values in reverse insertion order, and then prev() returns None.
C6_BackwardWalk ==
    ret.op = "append" =>
        /\ ~WalkBack(lp).over
        /\ ValuesAt(lp, WalkBack(lp).els) = Reverse(shadow)

\* The offset at which the k-th appended value's entry starts.
RECURSIVE EntryOffset(_, _)
EntryOffset(sh, k) ==
    IF k <= 1 THEN HDR_SIZE
    ELSE EntryOffset(sh, k - 1) + size_for_write(sh[k - 1])

\* C19: on a buffer holding n appended entries, seek(i) returns the entry at
\* position i for 0 <= i < n, the entry at position n + i for -n <= i < 0,
\* and None for every other i, whether the header count is known or the
\* sentinel.
C19_Seek ==
    ret.op = "seek" =>
        LET n == Len(shadow)
            i == ret.n
        IN  IF 0 <= i /\ i < n
            THEN ret.ele = EntryOffset(shadow, i + 1)
                     /\ get(lp, ret.ele) = shadow[i + 1]
            ELSE IF -n <= i /\ i < 0
            THEN ret.ele = EntryOffset(shadow, n + i + 1)
                     /\ get(lp, ret.ele) = shadow[n + i + 1]
            ELSE ret.ele = NULL

\* C20: append(v) on a buffer with total_bytes T writes v's entry (tag,
\* payload and backlen) from offset T-1 on, leaves the bytes of the earlier
\* entries unchanged, writes EOF at offset T+s-1, sets total_bytes to T+s,
\* where s is the entry's size, and increments num_elements when it is tracked.
C20_Append ==
    [][\A v \in AppendVals :
          (ret'.op = "append" /\ shadow' = Append(shadow, v)
               /\ lp' = append(lp, v, junk).mem) =>
              LET T == get_total_bytes(lp)
                  s == size_for_write(v)
                  es == encoded_size(v)
                  bl == encode_backlen(es)
              IN  /\ \A i \in HDR_SIZE..(T - 2) : lp'[i] = lp[i]
                  /\ es < 256 => get(lp', T - 1) = v
                  /\ v.kind = "Str" =>
                         \A k \in 1..Len(v.v) :
                             lp'[T - 1 + es - Len(v.v) + k - 1] = v.v[k]
                  /\ s = es + Len(bl)
                  /\ \A k \in 1..Len(bl) : lp'[T - 1 + es + k - 1] = bl[k]
                  /\ lp'[T + s - 1] = EOF
                  /\ get_total_bytes(lp') = T + s
                  /\ get_num_elements(lp) # HDR_NUMELE_UNKNOWN =>
                         get_num_elements(lp') = get_num_elements(lp) + 1
      ]_vars

(***************************************************************************)
(* Claims about the codec, checked under SpecCodec.                        *)
(***************************************************************************)
\* The tag+payload size of the class a leading byte belongs to, by the tag
\* table of the specification (0: no integer class).
IntClassOfTag(b) ==
    IF b < 128 THEN 1
    ELSE IF b \div 32 = 6 THEN 2
    ELSE IF b = 241 THEN 3
    ELSE IF b = 242 THEN 4
    ELSE IF b = 243 THEN 5
    ELSE IF b = 244 THEN 9
    ELSE 0

\* The length-prefix size the specification gives a string of n bytes.
StrPrefixOfLen(n) == IF n <= 63 THEN 1 ELSE IF n <= 4095 THEN 2 ELSE 5

\* The prefix size of the class a leading byte belongs to (0: no string class).
StrPrefixOfTag(b) ==
    IF b \div 64 = 2 THEN 1
    ELSE IF b \div 16 = 14 THEN 2
    ELSE IF b = 240 THEN 5
    ELSE 0

\* C7: every integer of the round-trip list, written as an entry by
\* Value::encode or by encode_int and decoded with get, reads back as the
\* same Int.
C7_IntRoundTrip ==
    (pc = "read" /\ input.kind = "Int") => ret.value = IntV(input.v)

C7_Witness ==
    /\ pc = "read"
    /\ input.kind = "Int"
    /\ input.v = W_I64_MIN
    /\ ret.from = "encode"
    /\ ret.value = IntV(W_I64_MIN)

\* C8: the encoder picks the smallest tag class for every integer under
\* test: Value::encoded_size, the length encode_int returns and
\* get_encoded_size of the written entry all equal the size of the range
\* table, and the leading byte has that class's bit pattern.
C8_SmallestClass ==
    (pc = "read" /\ input.kind = "Int") =>
        /\ ret.wrote = input.cls
        /\ ret.size = input.cls
        /\ IntClassOfTag(lp[0]) = input.cls

C8_Witness ==
    /\ pc = "read"
    /\ input.kind = "Int"
    /\ input.v = I64(-8388608)
    /\ ret.from = "encode_int"
    /\ ret.size = 4
    /\ lp[0] = 242

\* C9: a byte string of each length under test (0, 63, 64, 4095, 4096 and
\* lengths between), written as an entry and decoded with get, reads back
\* as a String of the same bytes; its length prefix has the size of the
\* threshold table, and get_encoded_size is prefix plus length.
C9_StrRoundTrip ==
    (pc = "read" /\ input.kind = "Str") =>
        /\ ret.value = StrV(input.v)
        /\ StrPrefixOfTag(lp[0]) = StrPrefixOfLen(Len(input.v))
        /\ ret.size = StrPrefixOfLen(Len(input.v)) + Len(input.v)

\* C10: for every size of the list, encode_backlen followed by
\* decode_backlen started at the last byte written returns the size.
C10_BacklenRoundTrip ==
    (pc = "read" /\ input.kind = "Len") =>
        ret.value = [max |-> FALSE, hi |-> 0, lo |-> input.v]

C10_Witness ==
    /\ pc = "read"
    /\ input.kind = "Len"
    /\ input.v = 268435455
    /\ ret.wrote = 5
    /\ ret.value.lo = 268435455

\* C11: the number of bytes encode_backlen returns for a length l, and
\* backlen_size(l), is 1 for l <= 127, 2 for l <= 16383, 3 for l <= 2097151,
\* 4 for l <= 268435455 and 5 otherwise.
C11_BacklenSizeTable ==
    (pc = "backlen" /\ input.kind = "Len") =>
        LET l == input.v
            size == IF l <= 127 THEN 1
                    ELSE IF l <= 16383 THEN 2
                    ELSE IF l <= 2097151 THEN 3
                    ELSE IF l <= 268435455 THEN 4
                    ELSE 5
        IN  ret.size = size /\ backlen_size(l) = size

(***************************************************************************)
(* Allocation failure: the calls when Allocator::realloc returns the null  *)
(* pointer.  std::alloc::realloc leaves the old block as it is when it     *)
(* fails.  Each operator yields what the call returns (some), the bytes it *)
(* leaves in the old block (mem), whether realloc was called at all        *)
(* (called) and whether the call reads or writes through the null pointer  *)
(* that realloc returned (null_access).                                    *)
(***************************************************************************)
NoMem(some, m, called, null_access) ==
    [some |-> some, mem |-> m, called |-> called, null_access |-> null_access]

\* append: the null check follows realloc at once.
append_nomem(m, v) == NoMem(FALSE, m, TRUE, FALSE)

\* insert: the three fallbacks to append pass its None on; the shifting
\* path checks for null before it computes p again.
insert_nomem(m, v, place, target) ==
    IF target = NULL \/ Rd(m, target) = EOF
    THEN append_nomem(m, v)
    ELSE IF place = "After" /\ next(m, target) = NULL
    THEN append_nomem(m, v)
    ELSE NoMem(FALSE, m, TRUE, FALSE)

\* replace, once the sizes, the old total and the successor are known.  A
\* shrinking replace shifts and encodes in the old block before it calls
\* realloc.
replace_sized_nomem(m, p, v, esize, old_size, old_listpack_bytes, ele) ==
    LET delta == esize - old_size
        poff == p
        new_listpack_bytes == old_listpack_bytes + delta
        eleoff == ele
    IN  IF old_size = esize THEN NoMem(TRUE, m, FALSE, FALSE)
        ELSE IF p <= 0 \/ poff > new_listpack_bytes THEN NoMem(FALSE, m, FALSE, FALSE)
        ELSE IF delta > 0 THEN
            IF ele # NULL /\ ele <= p THEN NoMem(FALSE, m, FALSE, FALSE)
            ELSE NoMem(FALSE, m, TRUE, FALSE)
        ELSE
            IF ele # NULL THEN
                IF ele <= p THEN NoMem(FALSE, m, FALSE, FALSE)
                ELSE LET m1 == Apply(m, copy(m, eleoff, eleoff + delta,
                                             old_listpack_bytes - eleoff))
                     IN  NoMem(FALSE, Apply(m1, encode(v, poff, esize)),
                               TRUE, FALSE)
            ELSE LET m1 == Apply(m, encode(v, poff, esize))
                 IN  NoMem(FALSE,
                           Apply(m1, <<B(new_listpack_bytes - 1, EOF)>>),
                           TRUE, FALSE)

replace_nomem(m, p, v) ==
    IF p = NULL \/ Rd(m, p) = EOF THEN NoMem(FALSE, m, FALSE, FALSE)
    ELSE replace_sized_nomem(m, p, v, size_for_write(v),
                             size_for_write(get(m, p)), get_total_bytes(m),
                             next(m, p))

\* delete: neither branch tests what realloc returned.  On a last entry the
\* EOF byte is stored at lp.offset(new_listpack_bytes - 1) of the null
\* pointer and last() reads its header; on another entry get_num_elements
\* and the two header stores go through the null pointer.  A call that
\* survives these accesses returns Some.
delete_nomem(m, p) ==
    LET esize == get_encoded_size(m, p)
        blsize == backlen_size(esize)
        entry_size == esize + blsize
        newp == next(m, p)
        old_listpack_bytes == get_total_bytes(m)
    IN  IF newp = NULL THEN
            IF old_listpack_bytes = HDR_USIZE + 1 THEN NoMem(FALSE, m, FALSE, FALSE)
            ELSE NoMem(TRUE, m, TRUE, TRUE)
        ELSE IF p < 0 THEN NoMem(FALSE, m, FALSE, FALSE)
        ELSE NoMem(TRUE,
                   Apply(m, copy(m, p + entry_size, p,
                                 old_listpack_bytes - (p + entry_size))),
                   TRUE, TRUE)

\* What a call whose realloc failed leaves.  An access through the null
\* pointer is undefined: the call either ends the program there or goes on
\* and returns.
Outcomes(r) ==
    IF r.null_access THEN {"fault", "Some"}
    ELSE IF r.some THEN {"Some"} ELSE {"None"}

Failed(op, r, on_last) ==
    /\ pc = "idle"
    /\ r.called
    /\ \E o \in Outcomes(r) :
           ret' = [op |-> op, outcome |-> o, null_access |-> r.null_access,
                   on_last |-> on_last]
    /\ lp' = r.mem
    /\ pc' = "nomem"
    /\ UNCHANGED <<allocated, junk, shadow, calls, input>>

\* The buffer is built by appends that succeed.
BuildAppend(v) == pc = "idle" /\ CallAppend(v)

NextNoMem ==
    \/ \E v \in Vals : BuildAppend(v)
    \/ \E v \in Vals : Failed("append", append_nomem(lp, v), FALSE)
    \/ \E v \in Vals, place \in {"Before", "After"}, t \in Targets :
           Failed("insert", insert_nomem(lp, v, place, t), FALSE)
    \/ \E v \in Vals, t \in Elements :
           Failed("replace", replace_nomem(lp, t, v), FALSE)
    \/ \E t \in Elements :
           Failed("delete", delete_nomem(lp, t), next(lp, t) = NULL)

SpecNoMem == Init /\ [][NextNoMem]_vars

\* C21: when realloc returns the null pointer, append, insert, replace and
\* delete (of a last or of another entry) return None and make no access
\* through the null pointer.
C21_NoMemIsNone ==
    pc = "nomem" => ret.outcome = "None" /\ ~ret.null_access

(***************************************************************************)
(* The size test that opens append and insert.  total_bytes and the        *)
(* entry size are u32, held here as 64-bit words whose upper four bytes    *)
(* are 0.  A u32 addition whose sum does not fit wraps in a build without  *)
(* overflow checks and panics in a build with them.                        *)
(***************************************************************************)
\* The largest distance of total_bytes below u32::max_value() that is tried.
MaxMargin == 9

U32_MAX == [k \in 1..8 |-> IF k <= 4 THEN 255 ELSE 0]

\* (w as u32): the low four bytes.
AsU32(w) == [k \in 1..8 |-> IF k <= 4 THEN w[k] ELSE 0]

\* The exact sum of two u32 does not fit a u32.
AddOverflows(a, b) == ULt(U32_MAX, Add64(a, b))

\* let new_listpack_bytes = old_listpack_bytes + encoded_size;
\* if new_listpack_bytes > u32::max_value() { return None; }
\* and then realloc(lp, new_listpack_bytes).  checks says whether the build
\* has overflow checks.
size_test(old_listpack_bytes, esize, checks) ==
    LET new_listpack_bytes == AsU32(Add64(old_listpack_bytes, esize))
    IN  IF checks /\ AddOverflows(old_listpack_bytes, esize)
        THEN [outcome |-> "panic", newsize |-> W64(0)]
        ELSE IF ULt(U32_MAX, new_listpack_bytes)
        THEN [outcome |-> "None", newsize |-> W64(0)]
        ELSE [outcome |-> "realloc", newsize |-> new_listpack_bytes]

\* The header values tried: small buffers and buffers within MaxMargin
\* bytes of the largest total_bytes.
TotalCases ==
    {W64(7), W64(9), W64(20)}
        \cup {Sub64(U32_MAX, W64(k)) : k \in 0..MaxMargin}

InitSize ==
    /\ input \in [kind : {"Sizes"}, op : {"append", "insert"},
                  total : TotalCases,
                  esize : {W64(size_for_write(v)) : v \in AppendVals}]
    /\ lp = Apply(Fresh(HDR_USIZE + 1, 0),
                  << <<0, SubSeq(input.total, 1, 4)>>, B(HDR_USIZE, EOF) >>)
    /\ allocated = HDR_USIZE + 1
    /\ junk = 0
    /\ shadow = <<>>
    /\ calls = 0
    /\ ret = NoRet
    /\ pc = "start"

SizeTest(op, checks) ==
    /\ pc = "start"
    /\ input.op = op
    /\ ret' = [op |-> op] @@ size_test(input.total, input.esize, checks)
    /\ pc' = "sized"
    /\ UNCHANGED <<lp, allocated, junk, shadow, calls, input>>

\* append up to its call of realloc, and insert up to its call of realloc
\* (its own, or that of the append it falls back to, which repeats the
\* same test).
NextSize ==
    \/ \E checks \in BOOLEAN : SizeTest("append", checks)
    \/ \E checks \in BOOLEAN : SizeTest("insert", checks)

SpecSize == InitSize /\ [][NextSize]_vars

\* C22: when total_bytes plus the entry's size exceeds 2^32 - 1, append and
\* insert return None without calling realloc; the sum never wraps to a
\* small new size.
C22_OverflowIsNone ==
    (pc = "sized" /\ AddOverflows(input.total, input.esize)) =>
        ret.outcome = "None"

(***************************************************************************)
(* The decoders on raw bytes: get and get_encoded_size on every leading    *)
(* byte, and decode_backlen on byte strings scanned from their last byte.  *)
(***************************************************************************)
\* Byte strings scanned backward: the 5-byte backlens of encode_backlen for
\* lengths of 2^28 and more, the longest 4-byte one, and strings whose
\* bytes all carry the continuation bit, of 5, 6 and 7 bytes.
ScanCases ==
    {encode_backlen(l) : l \in {268435454, 268435455, 268435456, 268435457,
                                536870912, 1073741823, 1879048192,
                                2147483646, 2147483647}}
        \cup {[i \in 1..n |-> b] : n \in 5..7, b \in {128, 129, 255}}
        \cup {<<0>> \o [i \in 1..5 |-> b] : b \in {128, 255}}
        \cup {<<1, 128, 128, 128, 128>>, <<15, 255, 255, 255, 255>>,
              <<127, 255, 255, 255, 255>>}

\* The leading byte is followed by eight bytes of uninitialised memory, of
\* which bytes 2..4 are 0 so that the length a 32-bit string tag announces
\* stays below 256.
InitRaw ==
    /\ input \in [kind : {"Tag"}, b : 0..255]
                    \cup {[kind |-> "Scan", b |-> s] : s \in ScanCases}
    /\ junk \in Garbage
    /\ lp = IF input.kind = "Tag"
            THEN Apply(Fresh(9, junk), <<B(0, input.b), <<2, <<0, 0, 0>>>>>>)
            ELSE [i \in 0..(Len(input.b) - 1) |-> input.b[i + 1]]
    /\ allocated = AllocSize(lp)
    /\ calls = 0
    /\ shadow = <<>>
    /\ ret = NoRet
    /\ pc = "start"

\* get and get_encoded_size at the leading byte.
ReadTag ==
    /\ pc = "start"
    /\ input.kind = "Tag"
    /\ ret' = [op |-> "get", value |-> get(lp, 0),
               size |-> get_encoded_size(lp, 0)]
    /\ pc' = "read"
    /\ UNCHANGED <<lp, allocated, junk, shadow, calls, input>>

\* decode_backlen started at the last byte.
ScanBacklen ==
    /\ pc = "start"
    /\ input.kind = "Scan"
    /\ ret' = [op |-> "decode_backlen",
               value |-> decode_backlen(lp, allocated - 1),
               reads |-> decode_backlen_reads(lp, allocated - 1, 0)]
    /\ pc' = "read"
    /\ UNCHANGED <<lp, allocated, junk, shadow, calls, input>>

NextRaw ==
    \/ ReadTag
    \/ ScanBacklen

SpecRaw == InitRaw /\ [][NextRaw]_vars

\* C23: get on a leading byte b of 0xF5..0xFF, the bytes that match no tag
\* class, returns Int(12345678900000000 + b), and get_encoded_size returns 0
\* for it, or 1 when b is the EOF byte 0xFF; every other byte belongs to a
\* class and has a size of 1 or more.
C23_UnknownTag ==
    (pc = "read" /\ input.kind = "Tag") =>
        IF input.b >= 245
        THEN /\ ret.value = IntV(Add64(<<0, 117, 88, 93, 84, 220, 43, 0>>,
                                       W64(input.b)))
             /\ ret.size = (IF input.b = 255 THEN 1 ELSE 0)
        ELSE ret.size >= 1

C23_Witness ==
    /\ pc = "read"
    /\ input.kind = "Tag"
    /\ input.b = 250
    /\ ret.value = IntV(<<250, 117, 88, 93, 84, 220, 43, 0>>)
    /\ ret.size = 0

\* The value of the last k bytes of a byte string read as a backlen: 7 bits
\* a byte, the last byte the least significant.
RECURSIVE LowChunks(_, _)
LowChunks(s, k) ==
    IF k = 0 THEN 0
    ELSE (s[Len(s)] % 128)
             + 128 * LowChunks(SubSeq(s, 1, Len(s) - 1), k - 1)

\* C28: decode_backlen reads at most the 5 bytes that end at its start
\* byte; when the fifth byte scanned still has its continuation bit it
\* returns the saturated u64::MAX, whatever lies before; and a 5-byte
\* backlen whose first byte has no continuation bit decodes to its exact
\* value.
C28_BacklenCap ==
    (pc = "read" /\ input.kind = "Scan") =>
        LET s == input.b
            n == Len(s)
        IN  /\ ret.reads \subseteq (n - 5)..(n - 1)
            /\ (n >= 5 /\ \A k \in (n - 4)..n : s[k] >= 128) => ret.value.max
            /\ (n = 5 /\ s[1] < 128 /\ \A k \in 2..5 : s[k] >= 128) =>
                   /\ ret.value = [max |-> FALSE, hi |-> s[1],
                                   lo |-> LowChunks(s, 4)]
                   /\ ret.reads = 0..4

\* A scan of five bytes that all carry the continuation bit, with no sixth
\* byte in the allocation.
C28_Witness ==
    /\ pc = "read"
    /\ input.kind = "Scan"
    /\ input.b = <<255, 255, 255, 255, 255>>
    /\ ret.value.max
    /\ ret.reads = 0..4

(***************************************************************************)
(* The signed-integer calls: append_signed_int and get_signed_int.         *)
(***************************************************************************)
\* The largest magnitude of the integers stored.
MaxSigned == 65

\* (n >> 1) on an i64: the arithmetic shift.
Sar1(w) ==
    [k \in 1..8 |->
        (w[k] \div 2) + 128 * (IF k < 8 THEN w[k + 1] % 2 ELSE w[8] \div 128)]

\* zigzag(n) = ((n >> 1) as i64) ^ (-((n & 1) as i64)): the shifted word,
\* XORed with 0 when n is even and with -1 when n is odd.
zigzag(n) == IF n[1] % 2 = 1 THEN Not64(Sar1(n)) ELSE Sar1(n)

\* i64::from(Value): the integer itself, or the 1, 2, 4 or 8 bytes of a
\* string read as a little-endian signed integer, and 0 for other lengths.
i64_from(val) ==
    IF val.kind = "Int" THEN val.v
    ELSE IF Len(val.v) \in {1, 2, 4, 8}
    THEN [k \in 1..8 |-> IF k <= Len(val.v) THEN val.v[k]
                         ELSE IF val.v[Len(val.v)] >= 128 THEN 255 ELSE 0]
    ELSE W64(0)

append_signed_int(m, v, g) == append(m, IntV(zigzag(v)), g)

get_signed_int(m, p) == zigzag(i64_from(get(m, p)))

AppendSigned(v) ==
    /\ pc = "idle"
    /\ lp' = append_signed_int(lp, v, junk).mem
    /\ allocated' = AllocSize(lp')
    /\ input' = [kind |-> "Signed", v |-> v]
    /\ ret' = Ret("append_signed_int", TRUE, NULL, 0)
    /\ pc' = "appended"
    /\ calls' = calls + 1
    /\ UNCHANGED <<junk, shadow>>

\* get_signed_int on the entry appended, the first of the buffer.
GetSigned ==
    /\ pc = "appended"
    /\ ret' = [op |-> "get_signed_int", value |-> get_signed_int(lp, HDR_SIZE),
               size |-> get_encoded_size(lp, HDR_SIZE)]
    /\ pc' = "read"
    /\ UNCHANGED <<lp, allocated, junk, shadow, calls, input>>

NextSigned ==
    \/ \E v \in {I64(n) : n \in (-MaxSigned)..MaxSigned} : AppendSigned(v)
    \/ GetSigned

SpecSigned == Init /\ [][NextSigned]_vars

\* C24: append_signed_int stores every v of -64..-1 as an entry whose
\* tag+payload is a single byte (followed by a 1-byte backlen).
C24_SmallNegativesOneByte ==
    (pc = "appended" /\ SLe(I64(-64), input.v) /\ SLt(input.v, I64(0))) =>
        /\ get_encoded_size(lp, HDR_SIZE) = 1
        /\ allocated = HDR_SIZE + 3

\* C29: for every v of the range stored, get_signed_int on the entry that
\* append_signed_int(v) wrote returns v.
C29_SignedRoundTrip ==
    pc = "read" => ret.value = input.v

(***************************************************************************)
(* Claims about the layout of the entries, under Spec.                     *)
(***************************************************************************)
\* C25: in every state reached from new() by append, insert, replace and
\* delete, the entries the calls have left lie one after the other from the
\* end of the header on: each is its tag+payload, which decodes to its
\* value, followed at once by a backlen that, scanned backward from the
\* byte before the next entry, decodes to the tag+payload's length; and the
\* byte after the last entry is the EOF byte that ends the allocation.
C25_PackedEntries ==
    /\ \A k \in 1..Len(shadow) :
           /\ get(lp, EntryOffset(shadow, k)) = shadow[k]
           /\ decode_backlen(lp, EntryOffset(shadow, k + 1) - 1)
                  = [max |-> FALSE, hi |-> 0, lo |-> encoded_size(shadow[k])]
    /\ Len(shadow) > 0 =>
           /\ EntryOffset(shadow, Len(shadow) + 1) = allocated - 1
           /\ Rd(lp, allocated - 1) = EOF

(***************************************************************************)
(* Relocation: realloc may hand back the block at another base address.    *)
(* An element pointer is then valid only if the call computed it from the  *)
(* new base (lp.offset(poff), last(lp)); the pointer the caller passed in  *)
(* designates freed memory.                                                *)
(***************************************************************************)
\* Whether the element a call returns is the pointer passed in, unchanged:
\* delete on an entry that has a successor returns Some((lp, p)) with p
\* never recomputed; insert and replace assign p = lp.offset(poff) after
\* every realloc.
returns_argument(op, m, p) ==
    op = "delete" /\ next(m, p) # NULL /\ p >= 0

\* A call on the buffer during which realloc moved the block (moved) or
\* left it in place.  stale says that the element returned designates the
\* block that realloc freed.
Relocating(op, r, called, unchanged_p, moved) ==
    /\ pc = "idle"
    /\ r.ok
    /\ ~r.fault
    /\ Followed(r.mem)
    /\ lp' = r.mem
    /\ allocated' = AllocSize(r.mem)
    /\ ret' = [op |-> op, ok |-> r.ok, ele |-> r.ele, n |-> 0,
               moved |-> moved /\ called,
               stale |-> moved /\ called /\ unchanged_p]
    /\ pc' = "moved"
    /\ calls' = calls + 1
    /\ UNCHANGED <<junk, shadow, input>>

RelocInsert(v, place, target, moved) ==
    /\ get_total_bytes(lp) + size_for_write(v) <= MaxBytes
    /\ Relocating("insert", insert(lp, v, place, target, junk), TRUE,
                  returns_argument("insert", lp, target), moved)

RelocReplace(target, v, moved) ==
    /\ get_total_bytes(lp) + size_for_write(v) <= MaxBytes
    /\ Relocating("replace", replace(lp, target, v, junk),
                  replace_nomem(lp, target, v).called,
                  returns_argument("replace", lp, target), moved)

RelocDelete(target, moved) ==
    Relocating("delete", delete(lp, target, junk),
               delete_nomem(lp, target).called,
               returns_argument("delete", lp, target), moved)

NextReloc ==
    \/ \E v \in Vals : BuildAppend(v)
    \/ \E v \in Vals, place \in {"Before", "After"}, t \in Targets,
          moved \in BOOLEAN : RelocInsert(v, place, t, moved)
    \/ \E v \in Vals, t \in Elements, moved \in BOOLEAN :
           RelocReplace(t, v, moved)
    \/ \E t \in Elements, moved \in BOOLEAN : RelocDelete(t, moved)

SpecReloc == Init /\ [][NextReloc]_vars

\* C26: the element that insert, replace or delete returns designates a
\* position inside the buffer the same call returns, also when realloc has
\* moved the block: it is never a pointer into the block that was freed.
C26_ReturnedElementValid ==
    (pc = "moved" /\ ret.ele # NULL) =>
        /\ ~ret.stale
        /\ ret.ele >= HDR_SIZE
        /\ ret.ele < allocated

(***************************************************************************)
(* The read-only calls, each made once on a buffer built by appends:       *)
(* first, last, next, prev, seek and get have no store in their code;      *)
(* length stores to the header after a scan.                               *)
(***************************************************************************)
\* A call that stores nothing: first, last, next, prev, seek, or get, whose
\* element is returned as given.
Reads(op, ele, n) ==
    /\ pc = "idle"
    /\ ret' = [op |-> op, ok |-> ele # NULL, ele |-> ele, n |-> n,
               was |-> get_num_elements(lp)]
    /\ pc' = "read"
    /\ UNCHANGED <<lp, allocated, junk, shadow, calls, input>>

\* length on the buffer.
ReadLength ==
    /\ pc = "idle"
    /\ length(lp).scanned
    /\ lp' = Apply(lp, length(lp).writes)
    /\ ret' = [op |-> "length", ok |-> TRUE, ele |-> NULL,
               n |-> length(lp).count, was |-> get_num_elements(lp)]
    /\ pc' = "read"
    /\ UNCHANGED <<allocated, junk, shadow, calls, input>>

\* length on a buffer whose header count is the sentinel and whose scan
\* counts count entries: the part of length that follows the scan, for
\* the counts around the 16-bit limit, which no buffer of the model holds.
ReadLengthCounted(count) ==
    /\ pc = "idle"
    /\ get_num_elements(lp) = HDR_NUMELE_UNKNOWN
    /\ first(lp) # NULL
    /\ lp' = Apply(lp, length_store(FALSE, count))
    /\ ret' = [op |-> "length", ok |-> TRUE, ele |-> NULL, n |-> count,
               was |-> get_num_elements(lp)]
    /\ pc' = "read"
    /\ UNCHANGED <<allocated, junk, shadow, calls, input>>

NextRead ==
    \/ \E v \in Vals : BuildAppend(v)
    \/ Reads("first", first(lp), 0)
    \/ Reads("last", last(lp), 0)
    \/ \E t \in Elements : Reads("next", next(lp, t), 0)
    \/ \E t \in Elements : Reads("prev", prev(lp, t), 0)
    \/ \E index \in (-(MaxEntries + 1))..(MaxEntries + 1) :
           Reads("seek", seek(lp, index), index)
    \/ \E t \in Elements : Reads("get", t, 0)
    \/ ReadLength
    \/ \E count \in {65534, 65535, 65536} : ReadLengthCounted(count)

SpecRead == Init /\ [][NextRead]_vars

\* C27: first, last, next, prev, seek and get leave every byte of the
\* buffer as it was; length changes at most the two bytes of num_elements,
\* and only when the field held 0xFFFF: it then holds the count when the
\* count is below 65535 and still the sentinel otherwise.
C27_ReadsAreFrameSafe ==
    [][/\ ret'.op \in {"first", "last", "next", "prev", "seek", "get"} =>
              lp' = lp
       /\ ret'.op = "length" =>
              /\ DOMAIN lp' = DOMAIN lp
              /\ \A i \in DOMAIN lp : i \notin {4, 5} => lp'[i] = lp[i]
              /\ get_num_elements(lp) # 65535 => lp' = lp
              /\ get_num_elements(lp) = 65535 =>
                     get_num_elements(lp') =
                         (IF ret'.n < 65535 THEN ret'.n ELSE 65535)
      ]_vars

\* A length call that found the sentinel, counted two entries and stored 2.
C27_Witness ==
    /\ pc = "read"
    /\ ret.op = "length"
    /\ ret.was = 65535
    /\ ret.n = 2
    /\ get_num_elements(lp) = 2

(***************************************************************************)
(* Claims about where the stores land, under SpecAppend.                   *)
(***************************************************************************)
\* C30: every byte that append(v) stores, the backlen bytes that
\* Value::encode writes for a String of any length included, lies inside
\* the allocation realloc has just returned, and within the new entry's own
\* bytes or the EOF byte that follows them.
C30_WritesInBounds ==
    [][\A v \in AppendVals :
          (ret'.op = "append" /\ shadow' = Append(shadow, v)
               /\ lp' = append(lp, v, junk).mem) =>
              LET T == get_total_bytes(lp)
                  s == size_for_write(v)
              IN  /\ allocated' = T + s
                  /\ Offsets(encode(v, T - 1, s)) \cup {T + s - 1}
                         \subseteq (T - 1)..(T + s - 1)
      ]_vars

====
